---- MODULE Spec2Model ----
(***************************************************************************)
(* Model of the nom engine of llama-tool-parser-native                     *)
(* (backend/src/nom_parser.rs): the literal value grammar, the function    *)
(* call grammar, the marker-aware top-level parser, the surrounding-text   *)
(* scanner and the incremental session NomParserState.                     *)
(*                                                                         *)
(* A text is a sequence of one-character strings.  A parser takes the      *)
(* whole text s and the 1-based index i of the first unread character and  *)
(* returns [ok, pos, val]: pos is the index of the first character it left *)
(* unconsumed (nom's "rest" is SubSeq(s, pos, Len(s))).                    *)
(***************************************************************************)
EXTENDS Integers, Sequences, FiniteSets, TLC

\* ------------------------------------------------------------------------
\* Characters
\* ------------------------------------------------------------------------

LowerLetters ==
    {"a","b","c","d","e","f","g","h","i","j","k","l","m",
     "n","o","p","q","r","s","t","u","v","w","x","y","z"}

UpperLetters ==
    {"A","B","C","D","E","F","G","H","I","J","K","L","M",
     "N","O","P","Q","R","S","T","U","V","W","X","Y","Z"}

DigitChars == <<"0","1","2","3","4","5","6","7","8","9">>

Digits == {DigitChars[k] : k \in 1..10}

\* one_of("abc...XYZ_") in parse_identifier
IdentStart == LowerLetters \cup UpperLetters \cup {"_"}

\* A letter outside ASCII, standing for the characters char::is_alphanumeric
\* accepts beyond [A-Za-z0-9].
NonAsciiLetter == "é"

\* |c: char| c.is_alphanumeric() || c == '_'
IdentContinue == LowerLetters \cup UpperLetters \cup Digits \cup {NonAsciiLetter, "_"}

\* nom's multispace0: space, tab, carriage return, line feed
Multispace == {" ", "\t", "\r", "\n"}

Backslash == "\\"

DQuote == "\""

SQuote == "'"

\* one_of("\"\\nrt!(){}[].;:") and one_of("'\\nrt!(){}[].;:")
Escapable(q) ==
    {q, Backslash, "n", "r", "t", "!", "(", ")", "{", "}", "[", "]", ".", ";", ":"}

PYTHON_START ==
    <<"<","|","p","y","t","h","o","n","_","s","t","a","r","t","|",">">>

PYTHON_END ==
    <<"<","|","p","y","t","h","o","n","_","e","n","d","|",">">>

\* ------------------------------------------------------------------------
\* Values (backend/src/lib.rs).  Every Value is a record of the same shape
\* so that derived equality (PartialEq) is plain equality of records.
\* A Number holds the decimal value m * 10^e of the literal in normal form.
\* ------------------------------------------------------------------------

NoNum == <<0, 0>>

ValBool(b) == [tag |-> "Bool", b |-> b, n |-> NoNum, s |-> <<>>, l |-> <<>>]

ValNumber(n) == [tag |-> "Number", b |-> FALSE, n |-> n, s |-> <<>>, l |-> <<>>]

ValString(s) == [tag |-> "String", b |-> FALSE, n |-> NoNum, s |-> s, l |-> <<>>]

ValIdentifier(s) == [tag |-> "Identifier", b |-> FALSE, n |-> NoNum, s |-> s, l |-> <<>>]

ValEmpty == [tag |-> "Empty", b |-> FALSE, n |-> NoNum, s |-> <<>>, l |-> <<>>]

ValList(l) == [tag |-> "List", b |-> FALSE, n |-> NoNum, s |-> <<>>, l |-> l]

FunctionCall(name, kwargs) == [name |-> name, kwargs |-> kwargs]

\* HashMap::new() and HashMap::insert: a later insert of a key replaces the value
EmptyMap == [k \in {} |-> ValEmpty]

MapInsert(m, k, v) == [x \in (DOMAIN m) \cup {k} |-> IF x = k THEN v ELSE m[x]]

\* ------------------------------------------------------------------------
\* nom primitives
\* ------------------------------------------------------------------------

Fail(i) == [ok |-> FALSE, pos |-> i, val |-> <<>>]

Done(i, v) == [ok |-> TRUE, pos |-> i, val |-> v]

\* the character at index i, "" past the end of the text
At(s, i) == IF i >= 1 /\ i <= Len(s) THEN s[i] ELSE ""

\* tag(t): the text at i starts with t
StartsWith(s, i, t) ==
    /\ i + Len(t) - 1 <= Len(s)
    /\ \A k \in 1..Len(t) : s[i + k - 1] = t[k]

tag(s, i, t) == IF StartsWith(s, i, t) THEN Done(i + Len(t), t) ELSE Fail(i)

\* char(c)
char(s, i, c) == IF At(s, i) = c THEN Done(i + 1, c) ELSE Fail(i)

\* take_while(|c| c is in set): index of the first character not in set
RECURSIVE take_while_in(_, _, _)
take_while_in(s, i, set) ==
    IF i <= Len(s) /\ s[i] \in set THEN take_while_in(s, i + 1, set) ELSE i

\* take_while(|c| c is not in stop)
RECURSIVE take_while_not(_, _, _)
take_while_not(s, i, stop) ==
    IF i <= Len(s) /\ s[i] \notin stop THEN take_while_not(s, i + 1, stop) ELSE i

multispace0(s, i) == take_while_in(s, i, Multispace)

\* digit1: one or more ASCII digits
digit1(s, i) ==
    LET j == take_while_in(s, i, Digits)
    IN  IF j > i THEN Done(j, SubSeq(s, i, j - 1)) ELSE Fail(i)

\* ------------------------------------------------------------------------
\* nom combinators.  A parser's result is handed on as an argument, so that
\* each parser is applied once where the code applies it once.
\* ------------------------------------------------------------------------

\* the closure of parse_dict pushing the values without their keys
RECURSIVE Flatten_values(_)
Flatten_values(entries) ==
    IF entries = <<>> THEN <<>>
    ELSE <<Head(entries)[2]>> \o Flatten_values(Tail(entries))

\* the closure of parse_dict: entries to a list of alternating keys and values
RECURSIVE Flatten(_)
Flatten(entries) ==
    IF entries = <<>> THEN <<>>
    ELSE Head(entries) \o Flatten(Tail(entries))

FlatList(entries) == ValList(Flatten(entries))

\* collect keeping the first value of a repeated key
RECURSIVE collect_keep_first(_)
collect_keep_first(pairs) ==
    IF pairs = <<>> THEN EmptyMap
    ELSE MapInsert(collect_keep_first(Tail(pairs)), pairs[1][1], pairs[1][2])

\* pairs.into_iter().collect(): HashMap built by inserting the pairs in order
RECURSIVE collect(_)
collect(pairs) ==
    IF pairs = <<>> THEN EmptyMap
    ELSE MapInsert(collect(SubSeq(pairs, 1, Len(pairs) - 1)),
                   pairs[Len(pairs)][1], pairs[Len(pairs)][2])

\* the functions and closures the grammar hands to map, by name
closure(f, v) ==
    CASE f = "Value::Bool" -> ValBool(v)
      [] f = "Value::String" -> ValString(v)
      [] f = "Value::Number" -> ValNumber(v)
      [] f = "Value::Identifier" -> ValIdentifier(v)
      [] f = "Value::List" -> ValList(v)
      [] f = "entries" -> FlatList(v)
      [] f = "collect" -> collect(v)

\* map(parser, f): f applied to the value of a success
map(r, f) == IF r.ok THEN Done(r.pos, closure(f, r.val)) ELSE r

\* alt((a, b)): the first success
alt(a, b) == IF a.ok THEN a ELSE b

\* the closing half of delimited(open, inner, preceded(multispace0, char(close)))
\* for the inner result r of a parser that started after the opener at i
closed_by(s, i, r, close) ==
    IF ~r.ok THEN Fail(i)
    ELSE IF At(s, multispace0(s, r.pos)) = close
         THEN Done(multispace0(s, r.pos) + 1, r.val)
         ELSE Fail(i)

\* the second half of separated_pair(key, preceded(multispace0, char(sep)), value)
\* for the key k read at i and the result v of the value parser
paired(i, k, v) == IF v.ok THEN Done(v.pos, <<k, v.val>>) ELSE Fail(i)

\* ------------------------------------------------------------------------
\* Literal value grammar
\* ------------------------------------------------------------------------

\* alt((value(true, tag("True")), value(false, tag("False"))))
parse_bool(s, i) ==
    IF StartsWith(s, i, <<"T","r","u","e">>) THEN Done(i + 4, TRUE)
    ELSE IF StartsWith(s, i, <<"F","a","l","s","e">>) THEN Done(i + 5, FALSE)
    ELSE Fail(i)

\* unescape_string: the loop over chars, with the match on the escaped character
RECURSIVE unescape_string(_)
unescape_string(b) ==
    IF b = <<>> THEN <<>>
    ELSE IF Head(b) = Backslash
         THEN IF Len(b) = 1 THEN <<Backslash>>
              ELSE LET c == b[2]
                       d == CASE c = Backslash -> Backslash
                              [] c = DQuote -> DQuote
                              [] c = SQuote -> SQuote
                              [] c = "n" -> "\n"
                              [] c = "r" -> "\r"
                              [] c = "t" -> "\t"
                              [] OTHER -> c
                   IN  <<d>> \o unescape_string(SubSeq(b, 3, Len(b)))
         ELSE <<Head(b)>> \o unescape_string(Tail(b))

\* nom 7 bytes::complete::escaped(normal, control_char, escapable) with
\* normal = take_while(|c| c != q && c != '\\'); s0 is where escaped started.
\* One call is one iteration of its while loop at index i.
RECURSIVE escaped(_, _, _, _)
escaped(s, s0, i, q) ==
    IF i > Len(s) THEN Done(Len(s) + 1, SubSeq(s, s0, Len(s)))
    ELSE LET normalOk == TRUE  \* take_while never fails
             i2 == take_while_not(s, i, {q, Backslash})
         IN  IF normalOk
             THEN IF i2 > Len(s) THEN Done(Len(s) + 1, SubSeq(s, s0, Len(s)))
                  \* the normal parser consumed nothing: return what was read
                  ELSE IF i2 = i THEN Done(i2, SubSeq(s, s0, i2 - 1))
                  ELSE escaped(s, s0, i2, q)
             ELSE IF s[i] = Backslash
                  THEN IF i + 1 > Len(s) THEN Fail(s0)
                       ELSE IF s[i + 1] \in Escapable(q)
                            THEN IF i + 2 > Len(s)
                                 THEN Done(Len(s) + 1, SubSeq(s, s0, Len(s)))
                                 ELSE escaped(s, s0, i + 2, q)
                            ELSE Fail(i + 1)
                  ELSE IF i = s0 THEN Fail(s0)
                       ELSE Done(i, SubSeq(s, s0, i - 1))

\* the closing quote of delimited(char(q), escaped(...), char(q)) and the map
\* through unescape_string, on the result body of escaped
quoted_body(s, i, q, body) ==
    IF ~body.ok THEN Fail(i)
    ELSE IF At(s, body.pos) # q THEN Fail(i)
    ELSE Done(body.pos + 1, unescape_string(body.val))

\* delimited(char(q), escaped(...), char(q)) mapped through unescape_string
quoted(s, i, q) ==
    IF At(s, i) # q THEN Fail(i)
    ELSE quoted_body(s, i, q, escaped(s, i + 1, i + 1, q))

\* alt((double quoted, single quoted))
parse_string(s, i) == alt(quoted(s, i, DQuote), quoted(s, i, SQuote))

\* value of a run of digits
RECURSIVE DigitsValue(_)
DigitsValue(ds) ==
    IF ds = <<>> THEN 0
    ELSE 10 * DigitsValue(SubSeq(ds, 1, Len(ds) - 1))
         + (CHOOSE k \in 0..9 : DigitChars[k + 1] = ds[Len(ds)])

\* m * 10^e with no trailing zero in m; zero is <<0, 0>>
RECURSIVE Normal(_, _)
Normal(m, e) ==
    IF m = 0 THEN <<0, 0>>
    ELSE IF m % 10 = 0 THEN Normal(m \div 10, e + 1)
    ELSE <<m, e>>

\* f64::from_str on the recognized literal: sign, integer digits, fraction
\* digits and exponent, as an exact decimal (equal literals give equal values;
\* the rounding of f64 beyond 2^53 is outside the bounded inputs)
F64FromStr(neg, int, frac, eneg, exp) ==
    LET m == DigitsValue(int \o frac)
        e == (IF eneg THEN 0 - DigitsValue(exp) ELSE DigitsValue(exp)) - Len(frac)
    IN  Normal(IF neg THEN 0 - m ELSE m, e)

\* recognize(tuple((opt('-'), digit1, opt(('.', digit1)), opt((one_of("eE"), opt(one_of("+-")), digit1)))))
parse_number(s, i) ==
    LET neg == At(s, i) = "-"
        i1 == IF neg THEN i + 1 ELSE i
        int == digit1(s, i1)
    IN  IF ~int.ok THEN Fail(i)
        ELSE LET fr == IF At(s, int.pos) = "." THEN digit1(s, int.pos + 1) ELSE Fail(int.pos)
                 i2 == IF fr.ok THEN fr.pos ELSE int.pos
                 frac == IF fr.ok THEN fr.val ELSE <<>>
                 hasE == At(s, i2) \in {"e", "E"}
                 sgn == hasE /\ At(s, i2 + 1) \in {"+", "-"}
                 ex == IF hasE THEN digit1(s, IF sgn THEN i2 + 2 ELSE i2 + 1) ELSE Fail(i2)
                 i3 == IF ex.ok THEN ex.pos ELSE i2
                 exp == IF ex.ok THEN ex.val ELSE <<>>
             IN  Done(i3, F64FromStr(neg, int.val, frac, sgn /\ At(s, i2 + 1) = "-", exp))

\* recognize(pair(one_of(letters and '_'), take_while(alphanumeric or '_')))
parse_identifier(s, i) ==
    IF At(s, i) \in IdentStart
    THEN LET j == take_while_in(s, i + 1, IdentContinue)
         IN  Done(j, SubSeq(s, i, j - 1))
    ELSE Fail(i)

\* ------------------------------------------------------------------------
\* Composite values and the function-call grammar
\* ------------------------------------------------------------------------

\* Parser::parse: the parser named p applied at index i of the text s.  The
\* grammar is recursive through it (values hold lists and dicts of values).
RECURSIVE parse(_, _, _)

\* separated_pair(parse_string, preceded(multispace0, char(':')), parse_value)
\* after its key k
dict_entry_value(s, i, k) ==
    IF ~k.ok THEN Fail(i)
    ELSE IF At(s, multispace0(s, k.pos)) # ":" THEN Fail(i)
    ELSE paired(i, ValString(k.val), parse("parse_value", s, multispace0(s, k.pos) + 1))

\* the entry parser of parse_dict
dict_entry(s, i) == dict_entry_value(s, i, parse_string(s, i))

RECURSIVE separated_list0_loop(_, _, _, _), separated_list0_next(_, _, _, _, _)

\* after the attempt at the first element
separated_list0_first(s, i, elem, first) ==
    IF ~first.ok THEN Done(i, <<>>)
    ELSE separated_list0_loop(s, first.pos, elem, <<first.val>>)

\* one iteration of its loop: the separator, then the element
separated_list0_loop(s, i, elem, res) ==
    IF At(s, multispace0(s, i)) # "," THEN Done(i, res)
    ELSE separated_list0_next(s, i, elem, res,
                              parse(elem, s, multispace0(s, multispace0(s, i) + 1)))

separated_list0_next(s, i, elem, res, next) ==
    IF ~next.ok THEN Done(i, res)
    ELSE separated_list0_loop(s, next.pos, elem, Append(res, next.val))

\* nom 7 multi::separated_list0(preceded(multispace0, char(',')),
\*                              preceded(multispace0, elem)):
\* never fails; a separator that no element follows is left unconsumed
separated_list0(s, i, elem) ==
    separated_list0_first(s, i, elem, parse(elem, s, multispace0(s, i)))

\* map(tag("None"), |_| Value::Empty)
parse_none(s, i) ==
    IF StartsWith(s, i, <<"N","o","n","e">>) THEN Done(i + 4, ValEmpty) ELSE Fail(i)

\* alt((bool, string, number, None, list, dict, identifier)) at index j
value_alt(s, j) ==
    alt(map(parse_bool(s, j), "Value::Bool"),
    alt(map(parse_string(s, j), "Value::String"),
    alt(map(parse_number(s, j), "Value::Number"),
    alt(parse_none(s, j),
    alt(parse("parse_list", s, j),
    alt(parse("parse_dict", s, j),
        map(parse_identifier(s, j), "Value::Identifier")))))))

\* preceded(multispace0, alt((...)))
parse_value(s, i) == value_alt(s, multispace0(s, i))

\* delimited(char('['), separated_list0(',', value), preceded(multispace0, char(']')))
parse_list(s, i) ==
    IF At(s, i) # "[" THEN Fail(i)
    ELSE map(closed_by(s, i, separated_list0(s, i + 1, "parse_value"), "]"), "Value::List")

\* delimited(char('{'), separated_list0(',', string ':' value), preceded(multispace0, char('}')))
parse_dict(s, i) ==
    IF At(s, i) # "{" THEN Fail(i)
    ELSE map(closed_by(s, i, separated_list0(s, i + 1, "dict_entry"), "}"), "entries")

\* separated_pair(parse_identifier, preceded(multispace0, char('=')),
\*                preceded(multispace0, parse_value)) after its key k
kwarg_value(s, i, k) ==
    IF ~k.ok THEN Fail(i)
    ELSE IF At(s, multispace0(s, k.pos)) # "=" THEN Fail(i)
    ELSE paired(i, k.val,
                parse("parse_value", s, multispace0(s, multispace0(s, k.pos) + 1)))

parse_kwarg(s, i) == kwarg_value(s, i, parse_identifier(s, i))

\* delimited(char('('), separated_list0(',', kwarg), preceded(multispace0, char(')')))
parse_kwargs(s, i) ==
    IF At(s, i) # "(" THEN Fail(i)
    ELSE map(closed_by(s, i, separated_list0(s, i + 1, "parse_kwarg"), ")"), "collect")

\* map(pair(parse_identifier, parse_kwargs), |(name, kwargs)| FunctionCall {..})
\* after its name
call_kwargs(i, name, kwargs) ==
    IF kwargs.ok THEN Done(kwargs.pos, FunctionCall(name.val, kwargs.val)) ELSE Fail(i)

call_after_name(s, i, name) ==
    IF ~name.ok THEN Fail(i)
    ELSE call_kwargs(i, name, parse("parse_kwargs", s, name.pos))

parse_function_call(s, i) == call_after_name(s, i, parse_identifier(s, i))

\* delimited(char('['), separated_list0(',', function_call), preceded(multispace0, char(']')))
parse_function_list(s, i) ==
    IF At(s, i) # "[" THEN Fail(i)
    ELSE closed_by(s, i, separated_list0(s, i + 1, "parse_function_call"), "]")

\* parse_python_block taking the list without its closing tag
block_end_optional(s, i, list) ==
    IF ~list.ok THEN Fail(i)
    ELSE IF StartsWith(s, list.pos, PYTHON_END)
    THEN Done(list.pos + Len(PYTHON_END), list.val)
    ELSE Done(list.pos, list.val)

\* the closing tag of parse_python_block after its list
block_end(s, i, list) ==
    IF list.ok /\ StartsWith(s, list.pos, PYTHON_END)
    THEN Done(list.pos + Len(PYTHON_END), list.val)
    ELSE Fail(i)

\* delimited(tag("<|python_start|>"), parse_function_list, tag("<|python_end|>"))
parse_python_block(s, i) ==
    IF ~StartsWith(s, i, PYTHON_START) THEN Fail(i)
    ELSE block_end(s, i, parse("parse_function_list", s, i + Len(PYTHON_START)))

\* alt((parse_python_block, parse_function_list))
parse_python_nom(s, i) ==
    alt(parse("parse_python_block", s, i), parse("parse_function_list", s, i))

parse(p, s, i) ==
    CASE p = "parse_value" -> parse_value(s, i)
      [] p = "parse_list" -> parse_list(s, i)
      [] p = "parse_dict" -> parse_dict(s, i)
      [] p = "dict_entry" -> dict_entry(s, i)
      [] p = "parse_kwarg" -> parse_kwarg(s, i)
      [] p = "parse_kwargs" -> parse_kwargs(s, i)
      [] p = "parse_function_call" -> parse_function_call(s, i)
      [] p = "parse_function_list" -> parse_function_list(s, i)
      [] p = "parse_python_block" -> parse_python_block(s, i)
      [] p = "parse_python_nom" -> parse_python_nom(s, i)

\* ------------------------------------------------------------------------
\* Surrounding-text scanner
\* ------------------------------------------------------------------------

\* str::find: the least index >= i where the pattern starts, 0 when there is none
find(s, i, pat) ==
    LET found == {k \in i..(Len(s) - Len(pat) + 1) : StartsWith(s, k, pat)}
    IN  IF found = {} THEN 0
        ELSE CHOOSE k \in found : \A m \in found : k <= m

\* the match of find_next_pattern_start on the two finds; 0 stands for None
earliest(python_start, bracket_start) ==
    IF python_start # 0 /\ bracket_start # 0
    THEN (IF python_start < bracket_start THEN python_start ELSE bracket_start)
    ELSE IF python_start # 0 THEN python_start
    ELSE bracket_start

\* find_next_pattern_start on the text from index i
find_next_pattern_start(s, i) ==
    earliest(find(s, i, PYTHON_START), find(s, i, <<"[">>))

RECURSIVE scan_loop(_, _, _), scan_at(_, _, _), scan_parsed(_, _, _, _)

\* One call is one iteration of the while loop of
\* parse_python_with_surrounding_text: remaining is the text from index i,
\* all_functions the calls collected so far.
scan_loop(s, i, all_functions) ==
    IF i > Len(s) THEN all_functions
    ELSE scan_at(s, find_next_pattern_start(s, i), all_functions)

\* the body of `if let Some(start_pos)`
scan_at(s, start_pos, all_functions) ==
    IF start_pos = 0 THEN all_functions
    ELSE scan_parsed(s, start_pos, all_functions, parse("parse_python_nom", s, start_pos))

\* the scanner advancing one character after a success as after a failure
scan_parsed_rescan(s, start_pos, all_functions, r) ==
    IF Len(s) > start_pos
    THEN scan_loop(s, start_pos + 1, IF r.ok THEN all_functions \o r.val ELSE all_functions)
    ELSE IF r.ok THEN all_functions \o r.val ELSE all_functions

\* the match on the result r of parse_python_nom(from_pattern)
scan_parsed(s, start_pos, all_functions, r) ==
    IF r.ok THEN scan_loop(s, r.pos, all_functions \o r.val)
    ELSE IF Len(s) > start_pos THEN scan_loop(s, start_pos + 1, all_functions)
    ELSE all_functions

Ok(calls) == [ok |-> TRUE, calls |-> calls]

Err == [ok |-> FALSE, calls |-> <<>>]

\* Result<Vec<FunctionCall>, String>: the only return is Ok(all_functions)
parse_python_with_surrounding_text(s) == Ok(scan_loop(s, 1, <<>>))

\* The loop's variables on entry: remaining is the index where the unprocessed
\* text starts. last tells how the latest iteration ended ("success",
\* "failure", "stop", "none" before the first), at the candidate index it
\* tried, failed the candidate indices that failed so far, and spans the
\* first and last index of each candidate that parsed.
scanner_start ==
    [running |-> TRUE, remaining |-> 1, all_functions |-> <<>>,
     last |-> "none", at |-> 0, failed |-> {}, spans |-> <<>>]

\* a fallback that turns the strict parser's failure into an empty success
strict_result_empty(strict) == IF strict.ok THEN Ok(strict.val) ELSE Ok(<<>>)

\* the fallback of parse_python_with_nom on the strict parser's result
strict_result(strict) == IF strict.ok THEN Ok(strict.val) ELSE Err

\* parse_python_with_nom returning the scanner's result as it is
one_shot_scan_only(source, scan) == Ok(scan.calls)

\* the match of parse_python_with_nom on the scanner's result
one_shot(source, scan) ==
    IF scan.ok /\ scan.calls # <<>> THEN Ok(scan.calls)
    ELSE strict_result(parse("parse_python_nom", source, 1))

\* One-shot entry point
parse_python_with_nom(source) ==
    one_shot(source, parse_python_with_surrounding_text(source))

\* ------------------------------------------------------------------------
\* The logos engine: lexer
\* ------------------------------------------------------------------------

\* #[logos(skip r"[ \t\r\n\f]+")]
LogosSkip == {" ", "\t", "\r", "\n", "\f"}

\* a token: its kind, the index after its slice, and the callback's value
Token(kind, end, b, n, s) == [kind |-> kind, end |-> end, b |-> b, n |-> n, s |-> s]

Plain(kind, end) == Token(kind, end, FALSE, NoNum, <<>>)

\* the end of a match of (?:"(?:[^"\\\n]|\\.)*") for the quote q from the
\* body index k: the index after the closing quote, 0 when there is no match
RECURSIVE string_end(_, _, _)
string_end(s, k, q) ==
    IF k > Len(s) THEN 0
    ELSE IF s[k] = q THEN k + 1
    ELSE IF s[k] = "\n" THEN 0
    ELSE IF s[k] = Backslash
         THEN IF k + 1 > Len(s) \/ s[k + 1] = "\n" THEN 0
              ELSE string_end(s, k + 2, q)
    ELSE string_end(s, k + 1, q)

\* Token::String: the slice without its quotes, escapes left as written
string_token(s, j, end) ==
    IF end = 0 THEN Plain("Error", j + 1)
    ELSE Token("String", end, FALSE, NoNum, SubSeq(s, j + 1, end - 2))

\* the end of (?:0|[1-9]\d*) from index k, 0 when there is no match
integer_end(s, k) ==
    IF At(s, k) = "0" THEN k + 1
    ELSE IF At(s, k) \in Digits THEN take_while_in(s, k, Digits)
    ELSE 0

\* the end of the optional (?:\.\d+) from index k
fraction_end(s, k) ==
    IF At(s, k) = "." /\ At(s, k + 1) \in Digits
    THEN take_while_in(s, k + 1, Digits)
    ELSE k

\* the index of the digits of the optional (?:[eE][+-]?\d+) from index k,
\* 0 when there is no exponent
exponent_digits(s, k) ==
    IF At(s, k) \notin {"e", "E"} THEN 0
    ELSE IF At(s, k + 1) \in {"+", "-"}
         THEN (IF At(s, k + 2) \in Digits THEN k + 2 ELSE 0)
    ELSE IF At(s, k + 1) \in Digits THEN k + 1
    ELSE 0

\* Token::Number with lex.slice().parse::<f64>() for the slice from j with its
\* integer part from i1 to ie, fraction to fe and exponent digits from ed
number_value(s, j, i1, ie, fe, ed) ==
    IF ed = 0
    THEN Token("Number", fe, FALSE,
               F64FromStr(i1 > j, SubSeq(s, i1, ie - 1), SubSeq(s, ie + 1, fe - 1),
                          FALSE, <<>>), <<>>)
    ELSE Token("Number", take_while_in(s, ed, Digits), FALSE,
               F64FromStr(i1 > j, SubSeq(s, i1, ie - 1), SubSeq(s, ie + 1, fe - 1),
                          s[ed - 1] = "-",
                          SubSeq(s, ed, take_while_in(s, ed, Digits) - 1)), <<>>)

number_fraction(s, j, i1, ie, fe) ==
    number_value(s, j, i1, ie, fe, exponent_digits(s, fe))

number_integer(s, j, i1, ie) ==
    IF ie = 0 THEN Plain("Error", j + 1)
    ELSE number_fraction(s, j, i1, ie, fraction_end(s, ie))

\* -?(?:0|[1-9]\d*)(?:\.\d+)?(?:[eE][+-]?\d+)? at index j
number_token(s, j) ==
    number_integer(s, j, IF s[j] = "-" THEN j + 1 ELSE j,
                   integer_end(s, IF s[j] = "-" THEN j + 1 ELSE j))

\* [a-zA-Z0-9_]
LogosIdentContinue == LowerLetters \cup UpperLetters \cup Digits \cup {"_"}

\* [a-zA-Z_][a-zA-Z0-9_]* ending at end, where the tokens "True" and "False"
\* take a slice that is exactly theirs
word_token(s, j, end) ==
    IF SubSeq(s, j, end - 1) = <<"T","r","u","e">> THEN Token("Bool", end, TRUE, NoNum, <<>>)
    ELSE IF SubSeq(s, j, end - 1) = <<"F","a","l","s","e">>
    THEN Token("Bool", end, FALSE, NoNum, <<>>)
    ELSE Token("Identifier", end, FALSE, NoNum, SubSeq(s, j, end - 1))

\* the token whose slice starts at index j <= Len(s), a character not skipped.
\* A character that starts no token is an error of that one character.
token_at(s, j) ==
    CASE s[j] = "[" -> Plain("BracketOpen", j + 1)
      [] s[j] = "]" -> Plain("BracketClose", j + 1)
      [] s[j] = "(" -> Plain("ParenOpen", j + 1)
      [] s[j] = ")" -> Plain("ParenClose", j + 1)
      [] s[j] = "," -> Plain("Comma", j + 1)
      [] s[j] = "=" -> Plain("Equals", j + 1)
      [] s[j] = "<" ->
            IF StartsWith(s, j, PYTHON_START) THEN Plain("PythonStart", j + Len(PYTHON_START))
            ELSE IF StartsWith(s, j, PYTHON_END) THEN Plain("PythonEnd", j + Len(PYTHON_END))
            ELSE Plain("Error", j + 1)
      [] s[j] \in {DQuote, SQuote} -> string_token(s, j, string_end(s, j + 1, s[j]))
      [] s[j] \in Digits \cup {"-"} -> number_token(s, j)
      [] s[j] \in IdentStart -> word_token(s, j, take_while_in(s, j + 1, LogosIdentContinue))
      [] OTHER -> Plain("Error", j + 1)

\* Token::lexer(source) read to its end: the tokens lexer.next() returns from
\* index i on
RECURSIVE lexer(_, _)
lexer(s, i) ==
    IF take_while_in(s, i, LogosSkip) > Len(s) THEN <<>>
    ELSE <<token_at(s, take_while_in(s, i, LogosSkip))>>
         \o lexer(s, token_at(s, take_while_in(s, i, LogosSkip)).end)

\* ------------------------------------------------------------------------
\* The logos engine: parser over the tokens toks, with lexer.next() reading
\* the token at index k
\* ------------------------------------------------------------------------

\* the kind of the token lexer.next() returns at index k; "None" at the end
Kind(toks, k) == IF k > Len(toks) THEN "None" ELSE toks[k].kind

\* the Value of a value token
token_value(tok) ==
    CASE tok.kind = "String" -> ValString(tok.s)
      [] tok.kind = "Bool" -> ValBool(tok.b)
      [] tok.kind = "Number" -> ValNumber(tok.n)
      [] tok.kind = "Identifier" -> ValIdentifier(tok.s)

\* a function call returned with the lexer left at index k
Returned(name, kwargs, k) == [call |-> FunctionCall(name, kwargs), next |-> k]

RECURSIVE parse_function_with_kwargs(_, _, _, _)

\* handle_post_value after a value was inserted: the token at k is consumed
handle_post_value(toks, k, name, kwargs) ==
    IF Kind(toks, k) = "ParenClose" THEN Returned(name, kwargs, k + 1)
    ELSE parse_function_with_kwargs(toks, k + 1, name, kwargs)

\* the match on the token after the equals sign of key
after_equals(toks, k, name, kwargs, key) ==
    CASE Kind(toks, k) \in {"String", "Bool", "Number", "Identifier"} ->
            handle_post_value(toks, k + 1, name, MapInsert(kwargs, key, token_value(toks[k])))
      [] Kind(toks, k) = "ParenClose" ->
            Returned(name, MapInsert(kwargs, key, ValEmpty), k + 1)
      [] OTHER ->
            parse_function_with_kwargs(toks, k + 1, name, MapInsert(kwargs, key, ValEmpty))

\* one iteration of the loop of parse_function_with_kwargs
parse_function_with_kwargs(toks, k, name, kwargs) ==
    CASE Kind(toks, k) = "None" -> Returned(name, kwargs, k)
      [] Kind(toks, k) \in {"PythonStart", "ParenClose", "BracketOpen", "PythonEnd"} ->
            Returned(name, kwargs, k + 1)
      [] Kind(toks, k) = "Identifier" ->
            IF Kind(toks, k + 1) = "Equals"
            THEN after_equals(toks, k + 2, name, kwargs, toks[k].s)
            ELSE parse_function_with_kwargs(toks, k + 2, name, kwargs)
      [] OTHER -> parse_function_with_kwargs(toks, k + 1, name, kwargs)

\* Ok(Some(func_call)) and Ok(None) of parse_next_function_in_list
SomeFunction(r) == [some |-> TRUE, call |-> r.call, next |-> r.next]

NoFunction(k) == [some |-> FALSE, call |-> FunctionCall(<<>>, EmptyMap), next |-> k]

\* parse_next_function_in_list: a name and an opening parenthesis, then the
\* arguments
parse_next_function_in_list(toks, k) ==
    IF Kind(toks, k) # "Identifier" THEN NoFunction(k + 1)
    ELSE IF Kind(toks, k + 1) # "ParenOpen" THEN NoFunction(k + 2)
    ELSE SomeFunction(parse_function_with_kwargs(toks, k + 2, toks[k].s, EmptyMap))

RECURSIVE parse_nested_function_calls(_, _, _), in_function_list(_, _, _),
          function_in_list(_, _, _)

\* one iteration of `while let Some(token) = lexer.next()`
parse_nested_function_calls(toks, k, result) ==
    CASE Kind(toks, k) = "None" -> result
      [] Kind(toks, k) = "BracketOpen" ->
            function_in_list(toks, result, parse_next_function_in_list(toks, k + 1))
      [] OTHER -> parse_nested_function_calls(toks, k + 1, result)

\* the `if let Some(..)` on a function of the list: pushed, and the list goes on
function_in_list(toks, result, f) ==
    IF f.some THEN in_function_list(toks, f.next, Append(result, f.call))
    ELSE parse_nested_function_calls(toks, f.next, result)

\* one iteration of the loop after a function of the list
in_function_list(toks, k, result) ==
    CASE Kind(toks, k) = "Comma" ->
            function_in_list(toks, result, parse_next_function_in_list(toks, k + 1))
      [] Kind(toks, k) = "None" -> parse_nested_function_calls(toks, k, result)
      [] OTHER -> parse_nested_function_calls(toks, k + 1, result)

\* parse_python: every Value of parse_nested_function_calls is a FunctionCall
parse_python(source) == Ok(parse_nested_function_calls(lexer(source, 1), 1, <<>>))

\* ------------------------------------------------------------------------
\* Python binding parse_tools
\* ------------------------------------------------------------------------

\* what an arm of the match on the engine leaves in function_calls: ran is
\* the engine that parsed the source, error the message of the PyValueError
Calls(ran, r) ==
    [ok |-> r.ok, calls |-> r.calls, ran |-> ran,
     error |-> IF r.ok THEN <<>> ELSE <<"Parse error: ">>]

Unsupported(engine) ==
    [ok |-> FALSE, calls |-> <<>>, ran |-> "none",
     error |-> <<"Unsupported engine: ", engine>>]

\* parse_tools with every selector but "logos" taken as "nom"
engine_calls_default_nom(source, engine) ==
    IF engine = "logos" THEN Calls("logos", parse_python(source))
    ELSE Calls("nom", parse_python_with_nom(source))

\* the match on engine.as_str()
engine_calls(source, engine) ==
    CASE engine = "nom" -> Calls("nom", parse_python_with_nom(source))
      [] engine = "logos" -> Calls("logos", parse_python(source))
      [] OTHER -> Unsupported(engine)

\* the `if let Ok(function_calls)`: the calls pythonized, or a PyValueError
\* whose message is "Parse error: " and the debug form of the error
pythonized(function_calls) ==
    IF function_calls.ok THEN function_calls
    ELSE [function_calls EXCEPT !.error = <<"Parse error: ">> \o @]

wrapped_parse_python(source, engine) == pythonized(engine_calls(source, engine))

\* ------------------------------------------------------------------------
\* Incremental session
\* ------------------------------------------------------------------------

\* Option<PartialFunction>::None
None == [some |-> FALSE]

\* NomParserState::new
NomParserState_new ==
    [remainder |-> <<>>,
     parsed_functions |-> <<>>,
     in_python_block |-> FALSE,
     in_function_list |-> FALSE,
     current_function |-> None]

\* reset that keeps the buffered text
NomParserState_reset_keeps_remainder(st) ==
    [st EXCEPT !.parsed_functions = <<>>,
               !.in_python_block = FALSE,
               !.in_function_list = FALSE,
               !.current_function = None]

\* NomParserState::reset
NomParserState_reset(st) ==
    [st EXCEPT !.remainder = <<>>,
               !.parsed_functions = <<>>,
               !.in_python_block = FALSE,
               !.in_function_list = FALSE,
               !.current_function = None]

\* NomParserState::add_input
add_input(st, input) == [st EXCEPT !.remainder = @ \o input]

\* a snapshot that parses the buffer again instead of reading the recorded list
get_parsed_functions_rescan(st) == parse_python_with_surrounding_text(st.remainder).calls

\* NomParserState::get_parsed_functions
get_parsed_functions(st) == st.parsed_functions

\* presence decided by the name alone
already_parsed_by_name(parsed, func) ==
    \E k \in 1..Len(parsed) : parsed[k].name = func.name

\* parsed_functions.iter().any(|existing| existing.name == func.name
\*                                        && existing.kwargs == func.kwargs)
already_parsed(parsed, func) ==
    \E k \in 1..Len(parsed) :
        parsed[k].name = func.name /\ parsed[k].kwargs = func.kwargs

\* no filter: every call of the scan is new
new_functions_all(function_calls, parsed) == function_calls

\* a filter that also drops a call equal to an earlier call of the same scan
RECURSIVE new_functions_unique(_, _)
new_functions_unique(function_calls, parsed) ==
    IF function_calls = <<>> THEN <<>>
    ELSE LET func == function_calls[Len(function_calls)]
             before == SubSeq(function_calls, 1, Len(function_calls) - 1)
         IN  IF \E k \in 1..Len(parsed) : parsed[k] = func THEN new_functions_unique(before, parsed)
             ELSE IF \E k \in 1..Len(before) : before[k] = func
                  THEN new_functions_unique(before, parsed)
                  ELSE Append(new_functions_unique(before, parsed), func)

\* the for loop of parse_incremental: the calls of the scan that are not in
\* state.parsed_functions, which the loop leaves untouched
RECURSIVE new_functions(_, _)
new_functions(function_calls, parsed) ==
    IF function_calls = <<>> THEN <<>>
    ELSE IF ~already_parsed(parsed, Head(function_calls))
         THEN <<Head(function_calls)>> \o new_functions(Tail(function_calls), parsed)
         ELSE new_functions(Tail(function_calls), parsed)

\* what parse_incremental leaves and returns: Ok(state.parsed_functions.clone())
returning(st) == [state |-> st, ret |-> Ok(st.parsed_functions)]

\* the Ok arm of parse_incremental: state.parsed_functions.extend(new_functions)
extend_parsed(st, function_calls) ==
    returning([st EXCEPT !.parsed_functions =
                            @ \o new_functions(function_calls, st.parsed_functions)])

\* the Err arm of parse_incremental on the strict parser's result
strict_fallback(st, strict) ==
    IF strict.ok
    THEN returning([st EXCEPT !.remainder = SubSeq(st.remainder, strict.pos, Len(st.remainder)),
                              !.parsed_functions = @ \o strict.val])
    ELSE returning(st)

\* a feed that always takes the strict parser's branch
scanned_by_strict(st, scan) ==
    strict_fallback(st, parse("parse_python_nom", st.remainder, 1))

\* the match of parse_incremental on the scanner's result
scanned(st, scan) ==
    IF scan.ok THEN extend_parsed(st, scan.calls)
    ELSE strict_fallback(st, parse("parse_python_nom", st.remainder, 1))

\* state after add_input, scanned
parse_buffer(st) == scanned(st, parse_python_with_surrounding_text(st.remainder))

\* a feed that records the scan in place of the list, not appended to it
parse_incremental_replace(state0, chunk) ==
    returning([add_input(state0, chunk) EXCEPT !.parsed_functions =
        parse_python_with_surrounding_text(state0.remainder \o chunk).calls])

\* a feed that hands the strict parser's failure to the caller
parse_incremental_strict(state0, chunk) ==
    IF parse_python_with_nom(state0.remainder \o chunk).ok
    THEN parse_buffer(add_input(state0, chunk))
    ELSE [state |-> add_input(state0, chunk), ret |-> Err]

\* parse_incremental(state, chunk): the state it leaves and the value it returns
parse_incremental(state0, chunk) == parse_buffer(add_input(state0, chunk))

\* ------------------------------------------------------------------------
\* Several sessions, each an IncrementalParser that owns its NomParserState
\* ------------------------------------------------------------------------

\* the IncrementalParser objects that are alive
Sessions == {1, 2}

\* a session: its state, what its last call returned, the chunk of a
\* parse_incremental that has run add_input and not yet the scanner (busy),
\* and the calls made on it: <<"feed", chunk>> or <<"reset">>
Session(st, r, pending, busy, history) ==
    [state |-> st, ret |-> r, pending |-> pending, busy |-> busy, history |-> history]

\* IncrementalParser::new for every session
peers_start == [k \in Sessions |-> Session(NomParserState_new, Ok(<<>>), <<>>, FALSE, <<>>)]

\* an add_input that writes the chunk into every session's buffer
peer_add_input_shared(ps, k, chunk) ==
    [j \in Sessions |->
        IF j = k THEN Session(add_input(ps[j].state, chunk), ps[j].ret, chunk, TRUE, ps[j].history)
        ELSE [ps[j] EXCEPT !.state = add_input(@, chunk)]]

\* parse_incremental on session k up to state.add_input(chunk)
peer_add_input(ps, k, chunk) ==
    [ps EXCEPT ![k] = Session(add_input(ps[k].state, chunk), ps[k].ret, chunk, TRUE,
                              ps[k].history)]

\* parse_incremental on session k from the scanner to its return
peer_parse_buffer(ps, k) ==
    LET r == parse_buffer(ps[k].state)
    IN  [ps EXCEPT ![k] = Session(r.state, r.ret, <<>>, FALSE,
                                  Append(ps[k].history, <<"feed", ps[k].pending>>))]

\* IncrementalParser::reset on session k
peer_reset(ps, k) ==
    [ps EXCEPT ![k] = Session(NomParserState_reset(ps[k].state), Ok(<<>>), <<>>, FALSE,
                              Append(ps[k].history, <<"reset">>))]

\* ------------------------------------------------------------------------
\* Inputs: the text a generation stream delivers, chunk by chunk
\* ------------------------------------------------------------------------

MaxAtoms == 3

MaxFeeds == 3

Atoms == {<<"[">>, <<"]">>, <<"g", "(", ")">>, <<",">>, <<" ">>}

RECURSIVE AtomStreams(_)
AtomStreams(n) ==
    IF n = 0 THEN {<<>>}
    ELSE LET shorter == AtomStreams(n - 1)
         IN  shorter \cup {s \o a : s \in shorter, a \in Atoms}

\* [f(a="[g()]"), g()]
NestedInString ==
    <<"[","f","(","a","=","\"","[","g","(",")","]","\"",")",","," ","g","(",")","]">>

\* Hi [h(x=1)] ok
SurroundedByProse ==
    <<"H","i"," ","[","h","(","x","=","1",")","]"," ","o","k">>

\* <|python_start|>[g()]<|python_end|>
MarkedBlock ==
    <<"<","|","p","y","t","h","o","n","_","s","t","a","r","t","|",">","[","g","(",")","]","<","|","p","y","t","h","o","n","_","e","n","d","|",">">>

\* [g()][g()]
TwoLists ==
    <<"[","g","(",")","]","[","g","(",")","]">>

\* [f(a="v"),h(b=4)]
TwoCalls ==
    <<"[","f","(","a","=","\"","v","\"",")",",","h","(","b","=","4",")","]">>

\* [g(), g()]
TwoSameCalls ==
    <<"[","g","(",")",","," ","g","(",")","]">>

\* [g()] [g(a=1)]
TwoDistinctLists ==
    <<"[","g","(",")","]"," ","[","g","(","a","=","1",")","]">>

Examples ==
    {NestedInString, SurroundedByProse, MarkedBlock, TwoLists, TwoCalls,
     TwoSameCalls, TwoDistinctLists}

Inputs == Examples \cup AtomStreams(MaxAtoms)

\* ------------------------------------------------------------------------
\* The session under a stream of chunks
\* ------------------------------------------------------------------------

VARIABLES
    stream,      \* the text of the generation stream
    pos,         \* how many characters of stream have been fed
    start,       \* pos when the session was created or last reset
    nfeeds,      \* feeds since creation or the last reset, counted up to MaxFeeds
    state,       \* the NomParserState of the session
    ret,         \* the last operation and what it returned
    last_feed,   \* the list the most recent feed returned, empty after new/reset
    added,       \* how many calls the most recent feed appended, 0 after new/reset
    dropped,     \* how many recorded calls the last reset cleared
    fresh,       \* a session created by new() at the last reset, fed the same chunks
    source,      \* the whole text handed to a one-shot function
    engine,      \* the engine selector last handed to parse_tools
    answer,      \* the last one-shot function applied to source and what it returned
    scanner,     \* the surrounding-text scanner run on source, iteration by iteration
    peers        \* the sessions that are alive side by side, each with its own state

session_vars == <<stream, pos, start, nfeeds, state, ret, last_feed, added, dropped, fresh>>

vars == <<stream, pos, start, nfeeds, state, ret, last_feed, added, dropped, fresh,
          source, engine, answer, scanner, peers>>

\* what a one-shot function returned: out is the list of calls (for
\* parse_value, the value) of a success, pos the index after the text a
\* parser consumed (0 where the function returns no remaining input), ran the
\* engine that was run, error the parts of the reported error message
Answer(op, ok, out, at, ran, error) ==
    [op |-> op, ok |-> ok, out |-> out, pos |-> at, ran |-> ran, error |-> error]

NoAnswer == Answer("none", TRUE, <<>>, 0, "none", <<>>)

\* what an operation returned; empty tells a feed of the empty chunk
Return(op, ok, calls, empty) ==
    [op |-> op, ok |-> ok, calls |-> calls, empty |-> empty]

Init ==
    /\ stream \in Inputs
    /\ pos = 0
    /\ start = 0
    /\ nfeeds = 0
    /\ state = NomParserState_new
    /\ ret = Return("new", TRUE, <<>>, FALSE)
    /\ last_feed = <<>>
    /\ added = 0
    /\ dropped = 0
    /\ fresh = [state |-> NomParserState_new, ret |-> Ok(<<>>)]
    /\ source = <<>>
    /\ engine = "nom"
    /\ answer = NoAnswer
    /\ peers = peers_start
    /\ scanner = scanner_start

\* the effect of a feed of n characters that left r in the session and f in
\* the session made by new()
FeedEffect(n, r, f) ==
    /\ pos' = pos + n
    /\ state' = r.state
    /\ ret' = Return("feed", r.ret.ok, r.ret.calls, n = 0)
    /\ last_feed' = r.ret.calls
    /\ added' = Len(r.state.parsed_functions) - Len(state.parsed_functions)
    /\ nfeeds' = IF nfeeds < MaxFeeds THEN nfeeds + 1 ELSE nfeeds
    /\ fresh' = f
    /\ UNCHANGED <<stream, start, dropped, source, engine, answer, scanner, peers>>

\* IncrementalParser::parse_chunk / parse_incremental on the next n characters
Feed(n) ==
    FeedEffect(n, parse_incremental(state, SubSeq(stream, pos + 1, pos + n)),
            parse_incremental(fresh.state, SubSeq(stream, pos + 1, pos + n)))

\* IncrementalParser::reset / NomParserState::reset
Reset ==
    /\ state' = NomParserState_reset(state)
    /\ ret' = Return("reset", TRUE, <<>>, FALSE)
    /\ added' = 0
    /\ start' = pos
    /\ nfeeds' = 0
    /\ last_feed' = <<>>
    /\ dropped' = Len(state.parsed_functions)
    /\ fresh' = [state |-> NomParserState_new, ret |-> Ok(<<>>)]
    /\ UNCHANGED <<stream, pos, source, engine, answer, scanner, peers>>

\* IncrementalParser::get_parsed_functions
Snapshot ==
    /\ ret' = Return("snapshot", TRUE, get_parsed_functions(state), FALSE)
    /\ UNCHANGED <<stream, pos, start, nfeeds, state, last_feed, added, dropped, fresh,
                   source, engine, answer, scanner, peers>>

Next ==
    \/ \E n \in 0..(Len(stream) - pos) : Feed(n)
    \/ Reset
    \/ Snapshot

Spec == Init /\ [][Next]_vars

\* ------------------------------------------------------------------------
\* The one-shot functions on a whole text
\* ------------------------------------------------------------------------

\* the texts of parts joined by sep
RECURSIVE Join(_, _)
Join(parts, sep) ==
    IF parts = <<>> THEN <<>>
    ELSE IF Len(parts) = 1 THEN parts[1]
    ELSE parts[1] \o sep \o Join(Tail(parts), sep)

KwargText(k, v) == k \o <<"=">> \o v

CallText(name, kwargs) == name \o <<"(">> \o Join(kwargs, <<",">>) \o <<")">>

ListText(calls) == <<"[">> \o Join(calls, <<",">>) \o <<"]">>

BlockText(list) == PYTHON_START \o list \o PYTHON_END

\* [f(a="[g()]")]
BracketsInString ==
    <<"[","f","(","a","=","\"","[","g","(",")","]","\"",")","]">>

\* well-formed call lists, bare and sentinel-wrapped
CallLists ==
    {ListText(<<>>), ListText(<<CallText(<<"g">>, <<>>)>>), TwoCalls, TwoSameCalls,
     BracketsInString, MarkedBlock, BlockText(TwoCalls)}

\* prose with no open bracket and no start marker
ProseBefore == {<<>>, <<"H","i"," ">>, <<"a","]","b"," ">>}

ProseAfter == {<<>>, <<" ","o","k">>, <<"]">>}

Surrounded == {p \o l \o q : p \in ProseBefore, l \in CallLists, q \in ProseAfter}

\* texts that hold no call list
HowCanIHelp ==
    <<"H","o","w"," ","c","a","n"," ","I"," ","h","e","l","p"," ","y","o","u"," ","t","o","d","a","y","?">>

NoCallListTexts ==
    {HowCanIHelp, <<>>, <<"n","o","t"," ","a"," ","c","a","l","l">>, <<"[","g","(">>, <<"[","1","]">>, <<"g","(",")">>,
     PYTHON_START, PYTHON_START \o <<"[","g","(">>}

\* bare call lists to wrap in the markers
BareLists == {ListText(<<>>), ListText(<<CallText(<<"g">>, <<>>)>>), TwoCalls}

\* texts that begin with the start marker: the wrapped form, the wrapped form
\* with text after it, with a space after the start marker, with no end
\* marker, with a space before the end marker, and around a broken list
MarkerTexts ==
    UNION {{BlockText(l), BlockText(l) \o <<" ","o","k">>, PYTHON_START \o <<" ">> \o l \o PYTHON_END,
            PYTHON_START \o l, PYTHON_START \o l \o <<" ">> \o PYTHON_END} : l \in BareLists}
    \cup {BlockText(<<"[","g","(">>)}

\* the most kwargs in a generated call, and the most pairs in a generated dict
MaxItems == 2

\* the sequences of at most n elements of set
RECURSIVE SeqsUpTo(_, _)
SeqsUpTo(set, n) ==
    IF n = 0 THEN {<<>>}
    ELSE LET shorter == SeqsUpTo(set, n - 1)
         IN  shorter \cup {Append(q, x) : q \in shorter, x \in set}

\* the texts of the elements of a sequence of <<key text, value text>> pairs
RECURSIVE PairTexts(_, _)
PairTexts(pairs, sep) ==
    IF pairs = <<>> THEN <<>>
    ELSE <<pairs[1][1] \o sep \o pairs[1][2]>> \o PairTexts(Tail(pairs), sep)

\* calls f(k=v, ...) with keys that may repeat
KwargPairs == {<<"a">>, <<"b">>} \X {<<"1">>, <<"2">>}

KwargSeqs == SeqsUpTo(KwargPairs, MaxItems)

\* [f(k=v,...)]
KwargsText(pairs) == ListText(<<CallText(<<"f">>, PairTexts(pairs, <<"=">>))>>)

KwargsTexts == {KwargsText(pairs) : pairs \in KwargSeqs}

\* dict literals {"k":v,...} with keys that may repeat; Quote(k) is the key as
\* a string literal
Quote(k) == <<DQuote>> \o k \o <<DQuote>>

DictPairs == {<<"k">>, <<"m">>} \X {<<"1">>, <<SQuote, "x", SQuote>>}

DictSeqs == SeqsUpTo(DictPairs, MaxItems)

Quoted(pairs) == [j \in 1..Len(pairs) |-> <<Quote(pairs[j][1]), pairs[j][2]>>]

\* {"k":v,...}
DictText(pairs) == <<"{">> \o Join(PairTexts(Quoted(pairs), <<":">>), <<",">>) \o <<"}">>

\* {k:v,...}: the same dict with its keys not quoted
BareKeyDictText(pairs) == <<"{">> \o Join(PairTexts(pairs, <<":">>), <<",">>) \o <<"}">>

DictTexts ==
    {DictText(pairs) : pairs \in DictSeqs}
    \cup {BareKeyDictText(pairs) : pairs \in DictSeqs \ {<<>>}}
    \cup {<<"[", "]">>}

\* keywords and identifier-shaped tokens as the value of a kwarg
Keywords == {<<"T","r","u","e">>, <<"F","a","l","s","e">>, <<"N","o","n","e">>}

IdentifierTokens == {<<"T","r","u","e","x">>, <<"N","o","n","e","x","i","s","t","e","n","t">>, <<"F","a","l","s","e","y">>, <<"n","o","n","e">>, <<"x">>}

\* [f(a=v)]
ValueCallText(v) == KwargsText(<< <<<<"a">>, v>> >>)

TokenTexts == {ValueCallText(v) : v \in Keywords \cup IdentifierTokens}

\* the escapes of a string literal: the character after the backslash
EscapeChars == {Backslash, DQuote, SQuote, "n", "r", "t"}

\* the string literal  q x \ c q  for a quote q and an escape character c
EscapeLiteral(q, c) == <<q, "x", Backslash, c, q>>

EscapeTexts == {ValueCallText(EscapeLiteral(q, c)) : q \in {DQuote, SQuote}, c \in EscapeChars}

\* characters after a backslash that stand for themselves: two that the
\* literal's one_of lists and one that it does not list
LiteralEscapeChars == {"!", ".", "q"}

\* texts at whose start an identifier is looked for: identifiers, an
\* identifier ended by a character outside the ASCII set, one continued by a
\* letter outside ASCII, and texts that begin with no identifier character
IdentifierTexts ==
    {<<"x">>, <<"_","a","1">>, <<"a","_","b","2","c">>, <<"x","-","y">>, <<"x"," ","y">>,
     <<"x",NonAsciiLetter>>, <<"a","1",NonAsciiLetter,"b">>, <<NonAsciiLetter,"x">>, <<"-","x">>}

\* [name()] for a name of ASCII identifier characters and one that holds a
\* letter outside ASCII
NamedCallTexts ==
    {ListText(<<CallText(name, <<>>)>>) : name \in {<<"a","_","1">>, <<"g",NonAsciiLetter>>}}

\* the empty list with a space inside, after a space, and wrapped in the markers
EmptyListTexts ==
    {<<"["," ","]">>, <<" ","[","]">>, BlockText(<<"["," ","]">>), <<" ">> \o BlockText(<<"[","]">>)}

\* [f(a=1  : a call that has read one kwarg and is not closed
OpenCall == <<"[","f","(","a","=","1">>

\* b=2)]  : a kwarg and the closing tokens of a call
SecondKwarg == <<"b","=","2",")","]">>

\* what cuts the open call off: the end of input, a nested list, the end
\* marker and the start marker, each before text that holds another kwarg
Cuts ==
    {<<>>, <<"[","g","(">> \o SecondKwarg, PYTHON_END \o SecondKwarg,
     PYTHON_START \o SecondKwarg}

\* the open call cut off directly after the value and after a comma
CutOffTexts == {OpenCall \o sep \o cut : sep \in {<<>>, <<",">>}, cut \in Cuts}

LiteralEscapeTexts ==
    {ValueCallText(EscapeLiteral(q, c)) : q \in {DQuote, SQuote}, c \in LiteralEscapeChars}

\* calls of the external grammar as <<name, <<key, value text>> pairs>>: the
\* kwarg values are a string, a number, a boolean, None, identifiers, and a
\* string with an escape
GrammarCalls ==
    {<< <<"g">>, <<>> >>,
     << <<"h">>, << <<<<"a">>, Quote(<<"v">>)>>, <<<<"b">>, <<"4">>>>,
                   <<<<"c">>, <<"T","r","u","e">>>>, <<<<"d">>, <<"N","o","n","e">>>>,
                   <<<<"e">>, <<"x">>>> >> >>,
     << <<"f">>, << <<<<"a">>, <<"T","r","u","e","x">>>> >> >>,
     << <<"f">>, << <<<<"a">>, EscapeLiteral(DQuote, "n")>> >> >>}

\* the most calls in a generated list of the external grammar
MaxCalls == 2

GrammarLists == SeqsUpTo(GrammarCalls, MaxCalls)

\* whitespace between two tokens, and between a call's name and its paren
Gaps == {<<>>, <<"\n", " ">>}

NameGaps == {<<>>, <<" ">>}

\* name g ( w k w = w v w , w k w = w v w )
SpacedCallText(c, w, g) ==
    c[1] \o g \o <<"(">> \o w \o Join(PairTexts(c[2], w \o <<"=">> \o w), w \o <<",">> \o w)
         \o w \o <<")">>

\* [ w call w , w call w ]
SpacedListText(calls, w, g) ==
    <<"[">> \o w \o Join([j \in 1..Len(calls) |-> SpacedCallText(calls[j], w, g)], w \o <<",">> \o w)
          \o w \o <<"]">>

\* the call lists of the external grammar, bare and sentinel-wrapped, with
\* the calls each is the text of
GrammarSources ==
    {[text |-> IF wrapped THEN BlockText(SpacedListText(calls, w, g))
                          ELSE SpacedListText(calls, w, g),
      calls |-> calls] :
        calls \in GrammarLists, w \in Gaps, g \in NameGaps, wrapped \in BOOLEAN}

GrammarTexts == {g.text : g \in GrammarSources}

Sources ==
    Surrounded \cup NoCallListTexts \cup MarkerTexts \cup KwargsTexts \cup DictTexts
    \cup TokenTexts \cup EscapeTexts \cup LiteralEscapeTexts \cup IdentifierTexts
    \cup NamedCallTexts \cup EmptyListTexts \cup CutOffTexts \cup GrammarTexts

\* engine selectors: the two supported ones and others
Engines == {"nom", "logos", "regex", "Nom", ""}

\* parse_tools(source, engine)
ParseTools ==
    \E e \in Engines :
        /\ engine' = e
        /\ answer' = LET r == wrapped_parse_python(source, e)
                     IN  Answer("parse_tools", r.ok, r.calls, 0, r.ran, r.error)
        /\ UNCHANGED <<session_vars, source, scanner, peers>>

\* parse_python_with_nom(source)
OneShot ==
    /\ answer' = LET r == parse_python_with_nom(source)
                 IN  Answer("parse_python_with_nom", r.ok, r.calls, 0, "nom",
                            IF r.ok THEN <<>> ELSE <<"Parse error">>)
    /\ UNCHANGED <<session_vars, source, engine, scanner, peers>>

\* parse_python_nom(source): the top-level parser at the start of the text
TopLevel ==
    /\ answer' = LET r == parse("parse_python_nom", source, 1)
                 IN  Answer("parse_python_nom", r.ok, r.val, r.pos, "nom",
                            IF r.ok THEN <<>> ELSE <<"Error">>)
    /\ UNCHANGED <<session_vars, source, engine, scanner, peers>>

\* parse_python_with_surrounding_text(source)
Scan ==
    /\ answer' = LET r == parse_python_with_surrounding_text(source)
                 IN  Answer("parse_python_with_surrounding_text", r.ok, r.calls, 0, "nom", <<>>)
    /\ UNCHANGED <<session_vars, source, engine, scanner, peers>>

\* parse_value(source): the value grammar at the start of the text
ParseValue ==
    /\ answer' = LET r == parse("parse_value", source, 1)
                 IN  Answer("parse_value", r.ok, IF r.ok THEN <<r.val>> ELSE <<>>,
                            r.pos, "nom", IF r.ok THEN <<>> ELSE <<"Error">>)
    /\ UNCHANGED <<session_vars, source, engine, scanner, peers>>

ParseInit ==
    /\ stream = <<>>
    /\ pos = 0
    /\ start = 0
    /\ nfeeds = 0
    /\ state = NomParserState_new
    /\ ret = Return("new", TRUE, <<>>, FALSE)
    /\ last_feed = <<>>
    /\ added = 0
    /\ dropped = 0
    /\ fresh = [state |-> NomParserState_new, ret |-> Ok(<<>>)]
    /\ source \in Sources
    /\ engine = "nom"
    /\ answer = NoAnswer
    /\ peers = peers_start
    /\ scanner = scanner_start

ParseNext ==
    \/ OneShot
    \/ TopLevel
    \/ Scan
    \/ ParseValue
    \/ ParseTools

ParseSpec == ParseInit /\ [][ParseNext]_vars

\* ------------------------------------------------------------------------
\* The scanner run on a whole text, iteration by iteration
\* ------------------------------------------------------------------------

\* [g(),[g()]: a well-formed list inside a truncated one
ListInTruncatedList ==
    <<"[","g","(",")",",","[","g","(",")","]">>

\* [f(a=<|python_start|>[g()]<|python_end|>: a block inside a truncated call
BlockInTruncatedCall ==
    <<"[","f","(","a","=">> \o MarkedBlock

\* <|python_start|>[g()]: a start marker with no end marker
UnclosedBlock == PYTHON_START \o <<"[","g","(",")","]">>

\* texts with many candidates that fail
Adversarial ==
    {ListInTruncatedList, BlockInTruncatedCall, UnclosedBlock,
     <<"[","[","[","[">>, <<"[","g","(","[","g","(","[">>, <<"]","]","[">>,
     PYTHON_START \o PYTHON_START, <<"[","[","g","(",")","]","]">>,
     <<"[","g","(",")","]","x","[","h","(","a","=","1",")","]","[">>}

ScanSources == Inputs \cup Adversarial

\* the loop left: `remaining` is empty, or no pattern is found
scanner_stopped(sc) == [sc EXCEPT !.running = FALSE, !.last = "stop", !.at = 0]

\* a success that resumes one character after the candidate's start
succeeded_candidate_rescan(sc, start_pos, r) ==
    [sc EXCEPT !.all_functions = @ \o r.val,
               !.remaining = start_pos + 1,
               !.last = "success",
               !.at = start_pos,
               !.spans = Append(@, <<start_pos, r.pos - 1>>)]

\* Ok((rest, functions)): all_functions.append(&mut functions); remaining = rest
succeeded_candidate(sc, start_pos, r) ==
    [sc EXCEPT !.all_functions = @ \o r.val,
               !.remaining = r.pos,
               !.last = "success",
               !.at = start_pos,
               !.spans = Append(@, <<start_pos, r.pos - 1>>)]

\* a failure that drops the rest of the text
resume_after_rest(s, start_pos) == Len(s) + 1

\* remaining = &remaining[start_pos + 1..]
resume_after(s, start_pos) == start_pos + 1

\* a failure that leaves the cursor on the failed candidate
failed_candidate_stay(s, sc, start_pos) ==
    [sc EXCEPT !.remaining = start_pos,
               !.last = "failure",
               !.at = start_pos,
               !.failed = @ \cup {start_pos}]

\* Err(_): skip this character and try again, or break at the end of the text
failed_candidate(s, sc, start_pos) ==
    IF Len(s) > start_pos
    THEN [sc EXCEPT !.remaining = resume_after(s, start_pos),
                    !.last = "failure",
                    !.at = start_pos,
                    !.failed = @ \cup {start_pos}]
    ELSE [sc EXCEPT !.running = FALSE,
                    !.last = "failure",
                    !.at = start_pos,
                    !.failed = @ \cup {start_pos}]

\* the match on parse_python_nom(from_pattern)
tried_candidate(s, sc, start_pos, r) ==
    IF r.ok THEN succeeded_candidate(sc, start_pos, r)
    ELSE failed_candidate(s, sc, start_pos)

\* parse_python_nom(from_pattern) for from_pattern = &s[k..], worked out once
\* for every text the scanner is run on
parse_python_nom_at ==
    [s \in ScanSources |-> [k \in 1..Len(s) |-> parse("parse_python_nom", s, k)]]

\* the `if let Some(start_pos) = find_next_pattern_start(remaining)`
found_pattern(s, sc, start_pos) ==
    IF start_pos = 0 THEN scanner_stopped(sc)
    ELSE tried_candidate(s, sc, start_pos, parse_python_nom_at[s][start_pos])

\* one evaluation of the loop condition and, if it holds, of the loop body
scan_iteration(s, sc) ==
    IF sc.remaining > Len(s) THEN scanner_stopped(sc)
    ELSE found_pattern(s, sc, find_next_pattern_start(s, sc.remaining))

\* one iteration of the while loop of parse_python_with_surrounding_text(source)
ScanIteration ==
    /\ scanner.running
    /\ scanner' = scan_iteration(source, scanner)
    /\ UNCHANGED <<session_vars, source, engine, answer, peers>>

ScanInit ==
    /\ stream = <<>>
    /\ pos = 0
    /\ start = 0
    /\ nfeeds = 0
    /\ state = NomParserState_new
    /\ ret = Return("new", TRUE, <<>>, FALSE)
    /\ last_feed = <<>>
    /\ added = 0
    /\ dropped = 0
    /\ fresh = [state |-> NomParserState_new, ret |-> Ok(<<>>)]
    /\ source \in ScanSources
    /\ engine = "nom"
    /\ answer = NoAnswer
    /\ peers = peers_start
    /\ scanner = scanner_start

ScanNext == ScanIteration

ScanSpec == ScanInit /\ [][ScanNext]_vars

\* the loop is sequential code of the calling thread: an iteration that can
\* run does run
FairScanSpec == ScanSpec /\ WF_vars(ScanIteration)

\* ------------------------------------------------------------------------
\* Sessions side by side with one-shot parses
\* ------------------------------------------------------------------------

\* the most calls made on one session
MaxOps == 2

\* chunks fed to the sessions: an open list and what closes it
PeerChunks == {<<"[","g","(",")">>, <<"]">>}

\* texts handed to the one-shot parse
PeerTexts == {<<"[","g","(",")","]">>, <<" ","[","]">>}

\* parse_chunk on session k: parse_incremental has appended the chunk
PeerAddInput(k) ==
    /\ ~peers[k].busy
    /\ Len(peers[k].history) < MaxOps
    /\ \E chunk \in PeerChunks : peers' = peer_add_input(peers, k, chunk)
    /\ UNCHANGED <<session_vars, source, engine, answer, scanner>>

\* parse_chunk on session k: parse_incremental scans the buffer and returns
PeerParseBuffer(k) ==
    /\ peers[k].busy
    /\ peers' = peer_parse_buffer(peers, k)
    /\ UNCHANGED <<session_vars, source, engine, answer, scanner>>

\* reset on session k
PeerReset(k) ==
    /\ ~peers[k].busy
    /\ Len(peers[k].history) < MaxOps
    /\ peers' = peer_reset(peers, k)
    /\ UNCHANGED <<session_vars, source, engine, answer, scanner>>

\* parse_python_with_nom on a text, by any caller
PeerParse ==
    /\ \E text \in PeerTexts :
           /\ source' = text
           /\ answer' = LET r == parse_python_with_nom(text)
                        IN  Answer("parse_python_with_nom", r.ok, r.calls, 0, "nom",
                                   IF r.ok THEN <<>> ELSE <<"Parse error">>)
    /\ UNCHANGED <<session_vars, engine, scanner, peers>>

PairInit ==
    /\ stream = <<>>
    /\ pos = 0
    /\ start = 0
    /\ nfeeds = 0
    /\ state = NomParserState_new
    /\ ret = Return("new", TRUE, <<>>, FALSE)
    /\ last_feed = <<>>
    /\ added = 0
    /\ dropped = 0
    /\ fresh = [state |-> NomParserState_new, ret |-> Ok(<<>>)]
    /\ source = <<>>
    /\ engine = "nom"
    /\ answer = NoAnswer
    /\ peers = peers_start
    /\ scanner = scanner_start

PairNext ==
    \/ \E k \in Sessions : PeerAddInput(k)
    \/ \E k \in Sessions : PeerParseBuffer(k)
    \/ \E k \in Sessions : PeerReset(k)
    \/ PeerParse

PairSpec == PairInit /\ [][PairNext]_vars

\* ------------------------------------------------------------------------
\* Properties
\* ------------------------------------------------------------------------

Range(q) == {q[k] : k \in 1..Len(q)}

Count(c, q) == Cardinality({k \in 1..Len(q) : q[k] = c})

IsPrefix(a, b) == Len(a) <= Len(b) /\ SubSeq(b, 1, Len(a)) = a

\* a is b with some entries left out
RECURSIVE IsSubsequence(_, _)
IsSubsequence(a, b) ==
    IF a = <<>> THEN TRUE
    ELSE IF b = <<>> THEN FALSE
    ELSE IF Head(a) = Head(b) THEN IsSubsequence(Tail(a), Tail(b))
    ELSE IsSubsequence(a, Tail(b))

\* the entries of q that are in set, in the order of q
RECURSIVE Restrict(_, _)
Restrict(q, set) ==
    IF q = <<>> THEN <<>>
    ELSE IF Head(q) \in set THEN <<Head(q)>> \o Restrict(Tail(q), set)
    ELSE Restrict(Tail(q), set)

\* the text fed since the session was created or last reset
Fed == SubSeq(stream, start + 1, pos)

\* the text the stream delivers from the creation or last reset to its end
Whole == SubSeq(stream, start + 1, Len(stream))

\* the whole text matches the grammar of the top-level parser
FullyMatches(text) ==
    LET r == parse("parse_python_nom", text, 1)
    IN  r.ok /\ r.pos = Len(text) + 1

\* the calls the scanner finds in a text
ScanOf(text) == parse_python_with_surrounding_text(text).calls

\* the calls a feed step has appended
Appended(before, after) == SubSeq(after, Len(before) + 1, Len(after))

\* C1: with no reset in between, each feed returns the full cumulative list
\* parsed_functions, the list the previous feed returned is a prefix of it, and
\* what a feed appends are calls of its scan, in the scanner's order.
C1_FeedReturnsGrowingCumulativeList ==
    [][ret'.op = "feed" =>
          /\ ret'.calls = state'.parsed_functions
          /\ IsPrefix(last_feed, ret'.calls)
          /\ IsPrefix(state.parsed_functions, state'.parsed_functions)
          /\ IsSubsequence(Appended(state.parsed_functions, state'.parsed_functions),
                           ScanOf(state'.remainder))]_vars

\* a feed has appended a call to a list that already held one
C1_Witness ==
    /\ ret.op = "feed"
    /\ added > 0
    /\ Len(state.parsed_functions) > added

\* C2: feed never returns an error, whatever the buffer holds: it returns a
\* success holding the cumulative list, and the scanner it runs reports none.
C2_FeedNeverFails ==
    ret.op = "feed" =>
        /\ ret.ok
        /\ ret.calls = state.parsed_functions
        /\ parse_python_with_surrounding_text(state.remainder).ok

\* a feed has returned while the buffer is text the one-shot parse rejects
C2_Witness ==
    /\ ret.op = "feed"
    /\ ret.ok
    /\ state.remainder # <<>>
    /\ ~parse_python_with_nom(state.remainder).ok

\* C3: a valid input fed in two parts to a fresh session gives the same
\* cumulative list as the whole input fed to a fresh session in one chunk.
C3_ChunkBoundaryIndependence ==
    (ret.op = "feed" /\ nfeeds = 2 /\ FullyMatches(Fed)) =>
        ret.calls = parse_incremental(NomParserState_new, Fed).ret.calls

\* C4 as claimed: parsed_functions never holds two structurally equal calls.
C4_NoTwoEqualCalls ==
    \A i, j \in 1..Len(state.parsed_functions) :
        i # j => state.parsed_functions[i] # state.parsed_functions[j]

\* C4 amended: a feed never appends a call equal to one recorded by an earlier
\* feed, and it appends every occurrence, in its scan, of a call that no
\* earlier feed recorded: equal calls of one scan are all recorded.
C4_EqualCallsOnlyWithinOneFeed ==
    [][ret'.op = "feed" =>
          \A c \in Range(ScanOf(state'.remainder)) \cup Range(state'.parsed_functions) :
              Count(c, Appended(state.parsed_functions, state'.parsed_functions))
                  = IF c \in Range(state.parsed_functions) THEN 0
                    ELSE Count(c, ScanOf(state'.remainder))]_vars

\* one feed has recorded two equal calls
C4_Witness ==
    /\ ret.op = "feed"
    /\ added = 2
    /\ Len(state.parsed_functions) = 2
    /\ state.parsed_functions[1] = state.parsed_functions[2]

\* C5: a call of the scan is appended only if no call recorded by an earlier
\* feed has the same name and equal kwargs; a call equal to a recorded one is
\* dropped, and every call of the scan with no recorded equal is appended.
C5_AppendedOnlyIfNotRecorded ==
    [][ret'.op = "feed" =>
          LET old == state.parsed_functions
              new == Appended(old, state'.parsed_functions)
              scan == ScanOf(state'.remainder)
              Recorded(c) == \E k \in 1..Len(old) :
                                 old[k].name = c.name /\ old[k].kwargs = c.kwargs
          IN  /\ IsPrefix(old, state'.parsed_functions)
              /\ \A k \in 1..Len(new) : ~Recorded(new[k]) /\ new[k] \in Range(scan)
              /\ \A k \in 1..Len(scan) :
                     IF Recorded(scan[k])
                     THEN Count(scan[k], state'.parsed_functions) = Count(scan[k], old)
                     ELSE scan[k] \in Range(new)]_vars

\* a later chunk has brought a second invocation equal to a recorded call and
\* the feed has dropped it
C5_Witness ==
    /\ ret.op = "feed"
    /\ ~ret.empty
    /\ added = 0
    /\ Len(state.parsed_functions) = 1
    /\ ScanOf(state.remainder) = state.parsed_functions \o state.parsed_functions

\* C6: if a feed has just returned the list C, feed("") returns exactly C and
\* leaves parsed_functions unchanged.
C6_EmptyFeedIsIdempotent ==
    [][(ret.op = "feed" /\ ret'.op = "feed" /\ ret'.empty) =>
          /\ ret'.calls = ret.calls
          /\ state'.parsed_functions = state.parsed_functions]_vars

\* feed("") has returned a list of calls that earlier feeds recorded
C6_Witness ==
    /\ ret.op = "feed"
    /\ ret.empty
    /\ nfeeds >= 2
    /\ added = 0
    /\ ret.calls # <<>>

\* C7: for an input that fully matches the grammar, the one-shot parse
\* succeeds and returns the list that one feed of the whole input to a fresh
\* session returns.
C7_ParseEqualsSingleFeed ==
    (ret.op = "feed" /\ nfeeds = 1 /\ FullyMatches(Fed)) =>
        LET once == parse_python_with_nom(Fed)
        IN  once.ok /\ once.calls = ret.calls

\* one feed of a fully matching input has returned two calls
C7_Witness ==
    /\ ret.op = "feed"
    /\ nfeeds = 1
    /\ FullyMatches(Fed)
    /\ Len(ret.calls) = 2

\* C8: while the buffer holds an unterminated call list, feed has recorded
\* none of that list's calls; once the list is complete its calls are
\* recorded in source order.
C8_CallsOnlyOnceListIsClosed ==
    LET list == parse_function_list(Whole, 1)
    IN  (ret.op = "feed" /\ list.ok /\ list.pos = Len(Whole) + 1) =>
            IF pos < Len(stream)
            THEN Range(state.parsed_functions) \cap Range(list.val) = {}
            ELSE Restrict(state.parsed_functions, Range(list.val)) = list.val

\* C9: reset puts every field of the session back to its initial value, and
\* the feeds after it leave the state and return the lists that the same
\* feeds leave and return on a session made by new().
C9_ResetStartsAfresh ==
    /\ ret.op = "reset" => state = NomParserState_new
    /\ state = fresh.state
    /\ ret.op = "feed" => Ok(ret.calls) = fresh.ret /\ ret.ok

\* a reset has cleared recorded calls and a later feed has recorded calls again
C9_Witness ==
    /\ ret.op = "feed"
    /\ dropped > 0
    /\ start > 0
    /\ state.parsed_functions # <<>>

\* C10: the snapshot changes no field of the session and returns the list
\* the most recent feed returned, the empty list on a new or just reset session.
C10_SnapshotIsReadOnlyPeek ==
    [][ret'.op = "snapshot" =>
          /\ state' = state
          /\ ret'.calls = last_feed
          /\ ret'.ok]_vars

\* a snapshot has returned recorded calls while the buffer holds text the
\* scanner would read differently
C10_Witness ==
    /\ ret.op = "snapshot"
    /\ ret.calls # <<>>
    /\ ret.calls # ScanOf(state.remainder)

\* a text in which the top-level parser succeeds at no position
HoldsNoCallList(text) ==
    \A i \in 1..Len(text) : ~parse("parse_python_nom", text, i).ok

\* C11: the one-shot parse parse_python_with_nom reports an error, not an
\* empty success, for every text that holds no call list at all.
C11_NoCallListIsAnError ==
    (answer.op = "parse_python_with_nom" /\ HoldsNoCallList(source))
        => (~answer.ok /\ answer.error # <<>>)

\* C11: the prose of test_no_tool_call was parsed and reported as an error
C11_Witness ==
    /\ answer.op = "parse_python_with_nom"
    /\ source = HowCanIHelp
    /\ ~answer.ok

\* C12: the one-shot parse succeeds only when the entire input matches the
\* grammar, with no ignored prefix and no ignored suffix.
C12_OneShotIsStrict ==
    (answer.op = "parse_python_with_nom" /\ answer.ok) => FullyMatches(source)

\* C13: for a text made of one well-formed call list surrounded by prose with
\* no open bracket and no start marker, the scanner returns exactly the calls
\* of that list, in order.
C13_ScannerIgnoresProse ==
    answer.op = "parse_python_with_surrounding_text" =>
        \A p \in ProseBefore, l \in CallLists, q \in ProseAfter :
            source = p \o l \o q =>
                /\ answer.ok
                /\ answer.out = parse("parse_python_nom", l, 1).val

\* C13: the scanner was applied to a two-call list between two pieces of prose
C13_Witness ==
    /\ answer.op = "parse_python_with_surrounding_text"
    /\ source = <<"H","i"," ">> \o TwoCalls \o <<" ","o","k">>
    /\ Len(answer.out) = 2

\* the text after the start marker of a text that begins with it
AfterStart(text) == SubSeq(text, Len(PYTHON_START) + 1, Len(text))

\* C14: on input that begins with the start marker the top-level parser
\* succeeds only if a well-formed function_list follows the marker immediately
\* and the end marker follows the list immediately; it then yields the calls
\* the bare list yields and consumes through the end marker; otherwise it fails.
C14_BlockNeedsBothMarkers ==
    (answer.op = "parse_python_nom" /\ StartsWith(source, 1, PYTHON_START)) =>
        LET body == AfterStart(source)
            list == parse("parse_function_list", body, 1)
            bare == SubSeq(body, 1, list.pos - 1)
        IN  IF list.ok /\ StartsWith(body, list.pos, PYTHON_END)
            THEN /\ answer.ok
                 /\ answer.out = parse("parse_python_nom", bare, 1).val
                 /\ answer.pos = Len(PYTHON_START) + Len(bare) + Len(PYTHON_END) + 1
            ELSE ~answer.ok

\* C14: the top-level parser accepted the wrapped list of test_python_markers'
\* form and consumed through the end marker
C14_Witness ==
    /\ answer.op = "parse_python_nom"
    /\ source = MarkedBlock
    /\ answer.ok
    /\ Len(answer.out) = 1
    /\ answer.pos = Len(MarkedBlock) + 1

\* the value a literal's text parses to
ValueOf(text) == parse("parse_value", text, 1).val

\* the index of the last pair of pairs with key k
LastIndex(pairs, k) ==
    CHOOSE j \in 1..Len(pairs) :
        /\ pairs[j][1] = k
        /\ \A m \in (j + 1)..Len(pairs) : pairs[m][1] # k

\* C15: in a parsed call the kwargs keys are those of the argument list, each
\* once, and a key that appears more than once keeps the value of its last
\* occurrence.
C15_LastDuplicateKeyWins ==
    answer.op = "parse_python_with_nom" =>
        \A pairs \in KwargSeqs :
            source = KwargsText(pairs) =>
                /\ answer.ok
                /\ Len(answer.out) = 1
                /\ answer.out[1].name = <<"f">>
                /\ DOMAIN answer.out[1].kwargs = {pairs[j][1] : j \in 1..Len(pairs)}
                /\ \A k \in DOMAIN answer.out[1].kwargs :
                       answer.out[1].kwargs[k] = ValueOf(pairs[LastIndex(pairs, k)][2])

\* C15: [f(a=1,a=2)] was parsed and a holds 2
C15_Witness ==
    /\ answer.op = "parse_python_with_nom"
    /\ source = KwargsText(<< <<<<"a">>, <<"1">>>>, <<<<"a">>, <<"2">>>> >>)
    /\ answer.ok
    /\ answer.out[1].kwargs = [k \in {<<"a">>} |-> ValNumber(<<2, 0>>)]

\* String(key_1), value_1, String(key_2), value_2, ... of pairs of texts
RECURSIVE Alternating(_)
Alternating(pairs) ==
    IF pairs = <<>> THEN <<>>
    ELSE <<ValString(pairs[1][1]), ValueOf(pairs[1][2])>> \o Alternating(Tail(pairs))

\* C16: a dict literal with n pairs parses to a List of 2n entries,
\* String(key_i) then value_i in source order with repeated keys kept; the
\* empty dict parses to the value of the empty list literal; a dict whose key
\* is not a quoted string fails to parse.
C16_DictIsAlternatingList ==
    answer.op = "parse_value" =>
        \A pairs \in DictSeqs :
            /\ source = DictText(pairs) =>
                   /\ answer.ok
                   /\ answer.pos = Len(source) + 1
                   /\ answer.out[1] = ValList(Alternating(pairs))
                   /\ Len(answer.out[1].l) = 2 * Len(pairs)
                   /\ pairs = <<>> => answer.out[1] = ValueOf(<<"[", "]">>)
            /\ (pairs # <<>> /\ source = BareKeyDictText(pairs)) => ~answer.ok

\* C16: {"k":1,"k":'x'} was parsed to a List of four entries
C16_Witness ==
    /\ answer.op = "parse_value"
    /\ source = DictText(<< <<<<"k">>, <<"1">>>>, <<<<"k">>, <<SQuote, "x", SQuote>>>> >>)
    /\ answer.ok
    /\ Len(answer.out[1].l) = 4

\* the value the grammar of the spec gives an identifier-shaped token
TokenValue(v) ==
    IF v = <<"T","r","u","e">> THEN ValBool(TRUE)
    ELSE IF v = <<"F","a","l","s","e">> THEN ValBool(FALSE)
    ELSE IF v = <<"N","o","n","e">> THEN ValEmpty
    ELSE ValIdentifier(v)

\* C17: as a kwarg value the exact tokens True and False parse to Bool and
\* None to Empty, and every other identifier-shaped token, also one that
\* begins with a keyword, parses as Identifier of the whole token.
C17_KeywordsAreExactTokens ==
    answer.op = "parse_python_with_nom" =>
        \A v \in Keywords \cup IdentifierTokens :
            source = ValueCallText(v) =>
                /\ answer.ok
                /\ Len(answer.out) = 1
                /\ answer.out[1].kwargs = [k \in {<<"a">>} |-> TokenValue(v)]

\* the character an escape stands for
Decoded(c) ==
    CASE c = "n" -> "\n"
      [] c = "r" -> "\r"
      [] c = "t" -> "\t"
      [] OTHER -> c

\* C18: in a string literal of either quote style each supported escape is
\* accepted and decoded to its single character in the String value.
C18_EscapesAreDecoded ==
    answer.op = "parse_python_with_nom" =>
        \A q \in {DQuote, SQuote}, c \in EscapeChars :
            source = ValueCallText(EscapeLiteral(q, c)) =>
                /\ answer.ok
                /\ Len(answer.out) = 1
                /\ answer.out[1].kwargs = [k \in {<<"a">>} |-> ValString(<<"x", Decoded(c)>>)]

\* C19: an engine selector other than "nom" and "logos" makes parse_tools
\* return an error that names the unsupported engine, and neither parser is
\* run on the source.
C19_UnsupportedEngineIsAnError ==
    (answer.op = "parse_tools" /\ engine \notin {"nom", "logos"}) =>
        /\ ~answer.ok
        /\ answer.ran = "none"
        /\ \E k \in 1..(Len(answer.error) - 1) :
               answer.error[k] = "Unsupported engine: " /\ answer.error[k + 1] = engine

\* C19: parse_tools was called with the selector "regex" on a well-formed list
C19_Witness ==
    /\ answer.op = "parse_tools"
    /\ engine = "regex"
    /\ source = TwoCalls
    /\ ~answer.ok

\* the parsed calls are those of the list, in order, by name and kwarg keys
SameCalls(out, calls) ==
    /\ Len(out) = Len(calls)
    /\ \A j \in 1..Len(calls) :
           /\ out[j].name = calls[j][1]
           /\ DOMAIN out[j].kwargs = {calls[j][2][m][1] : m \in 1..Len(calls[j][2])}

\* C20: for every call list of the external grammar, with any whitespace
\* between tokens and bare or sentinel-wrapped, parse_tools with the nom engine
\* and with the logos engine returns success with one call per call of the
\* list, in source order, each with the source's name and kwarg keys.
C20_EnginesAreInterchangeable ==
    (answer.op = "parse_tools" /\ engine \in {"nom", "logos"}) =>
        \A g \in GrammarSources :
            source = g.text => (answer.ok /\ SameCalls(answer.out, g.calls))

\* C21: the scanner terminates on every finite input: an iteration either
\* leaves the loop or strictly shortens the unprocessed text, by the consumed
\* candidate on success and to one character past the candidate on failure,
\* and the loop is eventually left.
C21_ScannerTerminates ==
    /\ [][ScanIteration =>
             \/ ~scanner'.running
             \/ /\ scanner'.remaining > scanner.remaining
                /\ scanner'.last = "failure" => scanner'.remaining = scanner'.at + 1
                /\ scanner'.last = "success" => scanner'.remaining > scanner'.at]_vars
    /\ <>(~scanner.running)
    /\ [](scanner.remaining <= Len(source) + 1)

\* C21: the scanner has left the loop on a text whose candidates all failed
C21_Witness ==
    /\ ~scanner.running
    /\ source = <<"[","g","(","[","g","(","[">>
    /\ scanner.failed = {1, 4, 7}
    /\ scanner.all_functions = <<>>

\* the candidate indices of a text after index i: an open bracket or the
\* beginning of a start marker
CandidatesAfter(text, i) ==
    {k \in (i + 1)..Len(text) : text[k] = "[" \/ StartsWith(text, k, PYTHON_START)}

\* the least of a non-empty set of indices
Least(set) == CHOOSE k \in set : \A m \in set : k <= m

\* C22: when the top-level parser fails at candidate i the scanner resumes at
\* i + 1: the next candidate tried is the earliest open bracket or start
\* marker after i, a well-formed list there is extracted, and i is not tried
\* again in that scan.
C22_ResumeOneCharacterAfterFailure ==
    /\ [][(ScanIteration /\ scanner'.last = "failure") =>
             /\ ~parse("parse_python_nom", source, scanner'.at).ok
             /\ scanner'.at \notin scanner.failed
             /\ scanner'.at >= scanner.remaining
             /\ IF scanner'.at < Len(source)
                THEN scanner'.running /\ scanner'.remaining = scanner'.at + 1
                ELSE ~scanner'.running]_vars
    /\ [][(ScanIteration /\ scanner.last = "failure") =>
             IF CandidatesAfter(source, scanner.at) = {}
             THEN scanner'.last = "stop"
             ELSE /\ scanner'.last \in {"success", "failure"}
                  /\ scanner'.at = Least(CandidatesAfter(source, scanner.at))
                  /\ parse("parse_python_nom", source, scanner'.at).ok =>
                         /\ scanner'.last = "success"
                         /\ scanner'.all_functions = scanner.all_functions
                                \o parse("parse_python_nom", source, scanner'.at).val]_vars

\* C22: the list inside the truncated list [g(),[g()] was extracted after the
\* candidate at index 1 failed
C22_Witness ==
    /\ ~scanner.running
    /\ source = ListInTruncatedList
    /\ scanner.failed = {1}
    /\ scanner.spans = << <<6, 10>> >>
    /\ Len(scanner.all_functions) = 1

\* the calls of the candidates of spans, in order
RECURSIVE CallsOfSpans(_, _)
CallsOfSpans(text, spans) ==
    IF spans = <<>> THEN <<>>
    ELSE parse("parse_python_nom", text, spans[1][1]).val \o CallsOfSpans(text, Tail(spans))

\* C23: when the top-level parser succeeds at a candidate the scanner records
\* every call of it and continues from the first unconsumed position; the
\* result is the concatenation, in text order, of the successful candidates'
\* calls, and no character belongs to two successful candidates.
C23_SuccessConsumesCandidate ==
    /\ [][(ScanIteration /\ scanner'.last = "success") =>
             LET r == parse("parse_python_nom", source, scanner'.at)
             IN  /\ r.ok
                 /\ scanner'.all_functions = scanner.all_functions \o r.val
                 /\ scanner'.remaining = r.pos
                 /\ scanner'.running]_vars
    /\ [](/\ scanner.all_functions = CallsOfSpans(source, scanner.spans)
          /\ \A k \in 1..Len(scanner.spans) :
                 /\ scanner.spans[k][1] <= scanner.spans[k][2]
                 /\ k > 1 => scanner.spans[k - 1][2] < scanner.spans[k][1]
          /\ ~scanner.running =>
                 scanner.all_functions = parse_python_with_surrounding_text(source).calls)

\* C23: the scanner has read two lists [g()] [g(a=1)] one after the other
C23_Witness ==
    /\ ~scanner.running
    /\ source = TwoDistinctLists
    /\ scanner.spans = << <<1, 5>>, <<7, 14>> >>
    /\ Len(scanner.all_functions) = 2

\* the index of the last character of the last candidate the scanner consumes
\* on s from index i on, c when it consumes none
RECURSIVE Consumed(_, _, _)
Consumed(s, i, c) ==
    IF i > Len(s) THEN c
    ELSE LET start_pos == find_next_pattern_start(s, i)
             r == parse("parse_python_nom", s, start_pos)
         IN  IF start_pos = 0 THEN c
             ELSE IF r.ok THEN Consumed(s, r.pos, r.pos - 1)
             ELSE Consumed(s, start_pos + 1, c)

\* C24: the remainder shrinks as text is consumed: after a feed in which the
\* scanner has fully consumed a call list of the buffered text, the consumed
\* prefix is dropped and remainder holds only the tail after it.
C24_RemainderShrinks ==
    [][ret'.op = "feed" =>
          LET text == state.remainder \o SubSeq(stream, pos + 1, pos')
              end == Consumed(text, 1, 0)
          IN  (end > 0 /\ ScanOf(text) # <<>>) =>
                  state'.remainder = SubSeq(text, end + 1, Len(text))]_vars

\* C25: in a string literal of either quote style a backslash followed by a
\* character outside the supported escapes is accepted, and the String value
\* keeps that character without the backslash.
C25_OtherEscapesKeptLiterally ==
    answer.op = "parse_python_with_nom" =>
        \A q \in {DQuote, SQuote}, c \in LiteralEscapeChars :
            source = ValueCallText(EscapeLiteral(q, c)) =>
                /\ answer.ok
                /\ Len(answer.out) = 1
                /\ answer.out[1].kwargs = [k \in {<<"a">>} |-> ValString(<<"x", c>>)]

\* the characters of the identifier pattern [A-Za-z_][A-Za-z0-9_]* after
\* the first
AsciiIdentContinue == LowerLetters \cup UpperLetters \cup Digits \cup {"_"}

\* how many characters at the start of the text match [A-Za-z_][A-Za-z0-9_]*
IdentifierLength(text) ==
    IF At(text, 1) \notin IdentStart THEN 0
    ELSE Least({n \in 1..Len(text) :
                   n = Len(text) \/ text[n + 1] \notin AsciiIdentContinue})

\* C26: an identifier is accepted exactly when it matches
\* [A-Za-z_][A-Za-z0-9_]* and ends at the first character outside that set:
\* as a value it is the longest such prefix of the text, and a call whose
\* name holds another character is not a call.
C26_IdentifierIsAsciiPattern ==
    /\ (answer.op = "parse_value" /\ source \in IdentifierTexts) =>
           LET n == IdentifierLength(source)
           IN  IF n = 0 THEN ~answer.ok
               ELSE /\ answer.ok
                    /\ answer.out = <<ValIdentifier(SubSeq(source, 1, n))>>
                    /\ answer.pos = n + 1
    /\ (answer.op = "parse_python_with_nom" /\ source \in NamedCallTexts) =>
           LET name == SubSeq(source, 2, Len(source) - 3)
           IN  IF IdentifierLength(name) = Len(name)
               THEN answer.ok /\ answer.out = <<FunctionCall(name, EmptyMap)>>
               ELSE ~answer.ok

EmptyListEnd(text, i) ==
    IF At(text, i) # "[" THEN 0
    ELSE LET blank == {j \in (i + 1)..(Len(text) + 1) :
                          \A k \in (i + 1)..(j - 1) : text[k] \in Multispace}
             j == CHOOSE m \in blank : \A n \in blank : n <= m
         IN  IF At(text, j) = "]" THEN j + 1 ELSE 0

\* the text begins, at offset 0, with an empty call list or with an empty
\* list between the two markers
BeginsWithEmptyList(text) ==
    \/ EmptyListEnd(text, 1) > 0
    \/ /\ StartsWith(text, 1, PYTHON_START)
       /\ LET e == EmptyListEnd(text, Len(PYTHON_START) + 1)
          IN  e > 0 /\ StartsWith(text, e, PYTHON_END)

\* C29: parse_python_with_nom has three outcomes: the scanner's calls when
\* the scanner finds a call; otherwise the empty success exactly when the
\* text begins with an empty call list or empty marked block; otherwise an
\* error.
C29_OneShotHasThreeOutcomes ==
    answer.op = "parse_python_with_nom" =>
        IF ScanOf(source) # <<>>
        THEN answer.ok /\ answer.out = ScanOf(source)
        ELSE IF BeginsWithEmptyList(source)
        THEN answer.ok /\ answer.out = <<>>
        ELSE ~answer.ok /\ answer.error # <<>>

\* the empty list after a space was parsed and reported as an error
C29_Witness ==
    /\ answer.op = "parse_python_with_nom"
    /\ source = <<" ","[","]">>
    /\ ~answer.ok

\* the index after the characters of set that begin at index i of the text
After(text, i, set) ==
    Least({j \in i..(Len(text) + 1) : j = Len(text) + 1 \/ text[j] \notin set})

\* an open bracket, a name and an open parenthesis, with whitespace between
\* them, begin at index i of the text
CallOpensAt(text, i) ==
    /\ text[i] = "["
    /\ LET n == After(text, i + 1, LogosSkip)
           e == After(text, n, LogosIdentContinue)
       IN  /\ At(text, n) \in IdentStart
           /\ At(text, After(text, e, LogosSkip)) = "("

\* the text holds no call list: no call opens anywhere in it
NoCallOpens(text) == \A i \in 1..Len(text) : ~CallOpensAt(text, i)

\* C30: the logos engine never returns an error; a text that holds no call
\* list yields the empty list; a call cut off by the end of input, by a
\* nested open bracket or by a marker in its argument list is returned as a
\* complete call with the kwargs read so far.
C30_LogosNeverFails ==
    (answer.op = "parse_tools" /\ engine = "logos") =>
        /\ answer.ok
        /\ NoCallOpens(source) => answer.out = <<>>
        /\ source \in CutOffTexts =>
               /\ Len(answer.out) >= 1
               /\ answer.out[1] =
                      FunctionCall(<<"f">>, [k \in {<<"a">>} |-> ValueOf(<<"1">>)])

\* what a session holds and last returned after the calls of history, made
\* on a session of its own from new() on
RECURSIVE Replay(_)
Replay(history) ==
    IF history = <<>> THEN [state |-> NomParserState_new, ret |-> Ok(<<>>)]
    ELSE LET before == Replay(SubSeq(history, 1, Len(history) - 1))
             op == history[Len(history)]
         IN  IF op[1] = "reset"
             THEN [state |-> NomParserState_reset(before.state), ret |-> Ok(<<>>)]
             ELSE parse_incremental(before.state, op[2])

\* C27: the one-shot parse is stateless and sessions are isolated: under any
\* interleaving of one-shot parses and of the feeds and resets of distinct
\* sessions, the one-shot result is that of its text alone, each session
\* holds and returns what its own calls give on a session run alone, and a
\* step of one call changes no other session and no other call's result.
C27_SessionsAreIsolated ==
    /\ [](\A k \in Sessions :
             LET alone == Replay(peers[k].history)
             IN  IF peers[k].busy
                 THEN peers[k].state = add_input(alone.state, peers[k].pending)
                 ELSE peers[k].state = alone.state /\ peers[k].ret = alone.ret)
    /\ [](answer.op = "parse_python_with_nom" =>
             LET r == parse_python_with_nom(source)
             IN  answer.ok = r.ok /\ answer.out = r.calls)
    /\ [][\A k \in Sessions :
             peers'[k] # peers[k] =>
                 /\ \A j \in Sessions \ {k} : peers'[j] = peers[j]
                 /\ answer' = answer]_vars
    /\ [][answer' # answer => peers' = peers]_vars

\* a one-shot parse has returned an error while session 1 has recorded the
\* call of a list fed in two chunks and session 2, fed the same first chunk,
\* is in the middle of its second feed
C27_Witness ==
    /\ answer.op = "parse_python_with_nom"
    /\ ~answer.ok
    /\ peers[1].history = <<<<"feed", <<"[","g","(",")">>>>, <<"feed", <<"]">>>>>>
    /\ peers[1].ret.calls # <<>>
    /\ peers[2].history = <<<<"feed", <<"[","g","(",")">>>>>>
    /\ peers[2].busy
    /\ peers[2].state.parsed_functions = <<>>


====
